---- MODULE Spec2Model ----
(***************************************************************************)
(* Trapezoidal map construction and planar point location                  *)
(* (src/trapezoidal_map.py).                                               *)
(*                                                                         *)
(* The object heap of the program is the sequence `nodes`: an object is    *)
(* its index, None is 0.  One step of the model is one iteration of the    *)
(* loop of construct_trapezoidal_map (one input line inserted); a Python   *)
(* exception ends the program and is recorded in `fault`, the heap staying *)
(* as it was when the exception was raised.  After the loop main calls     *)
(* create_adjacency_matrix (one step) and then the prompt, one step for    *)
(* every point entered; `pc` is the place main has reached.                *)
(*                                                                         *)
(* Coordinates are integers.  Segment.getY is evaluated in floating point  *)
(* by the program; the model keeps getY(x) as the exact fraction           *)
(* GetYNum/GetYDen.  Every input line of `RawLines` has an x-extent that   *)
(* is a power of two, for which the floating point value is exact at       *)
(* integer x, so the comparisons agree.                                    *)
(***************************************************************************)
EXTENDS Integers, Sequences, FiniteSets, TLC

VARIABLES nodes, the_tree, next_point, next_segment, duplicate_p, duplicate_q,
          t_p, t_q, p, q, lines, fault, pc, name, matrix, input_val, result_path

vars == <<nodes, the_tree, next_point, next_segment, duplicate_p, duplicate_q,
          t_p, t_q, p, q, lines, fault, pc, name, matrix, input_val, result_path>>

\* ---------------------------------------------------------------- bounds
\* number of input lines of the file
MaxLines == 4

\* the bounding box of the input file: lower left and upper right corner
bound_box == << <<0, 0>>, <<8, 8>> >>

\* the points entered at the prompt
PromptPoints == { <<2, 2>>, <<3, 1>>, <<3, 5>>, <<5, 3>> }

\* the input lines x1 y1 x2 y2 the file may hold
RawLines ==
  { <<2, 2, 4, 2>>, <<2, 2, 6, 4>>, <<6, 6, 4, 4>>, <<4, 4, 6, 2>>,
    <<2, 4, 6, 6>>, <<2, 4, 4, 2>>, <<6, 4, 10, 4>> }

\* ------------------------------------------------------------- the heap
None == 0

\* class attributes BeginPoint.bullet_upper / bullet_lower (and EndPoint's)
bullet_upper == 100
bullet_lower == 0

\* BeginPoint.__init__ / EndPoint.__init__ ; kind is "B" or "E"
NewPoint(kind, x, y, parent, next_pt) ==
  [kind |-> kind, x |-> x, y |-> y, parent |-> parent, left |-> None,
   right |-> None, num |-> next_pt,
   bullet_upper |-> <<bullet_upper, 1>>, bullet_lower |-> <<bullet_lower, 1>>]

\* Segment.__init__ : the slope m and intercept b are kept as the end points
NewSegment(left_point, right_point, parent, next_seg) ==
  [kind |-> "S", parent |-> parent, above |-> None, below |-> None,
   p |-> left_point, q |-> right_point, num |-> next_seg]

\* Trapezoid.__init__
NewTrapezoid(left_p, right_p, above_seg, below_seg, parent) ==
  [kind |-> "T", left_point |-> left_p, right_point |-> right_p,
   above_segment |-> above_seg, below_segment |-> below_seg,
   parent |-> parent]

IsPoint(ns, n) == n # None /\ ns[n].kind \in {"B", "E"}
IsBeginPoint(ns, n) == n # None /\ ns[n].kind = "B"
IsEndPoint(ns, n) == n # None /\ ns[n].kind = "E"
IsSegment(ns, n) == n # None /\ ns[n].kind = "S"
IsTrapezoid(ns, n) == n # None /\ ns[n].kind = "T"

\* ------------------------------------------------------------- geometry
\* getY(x) = m*x + b of the segment from point object pp to point object qq,
\* as the fraction YNum / YDen
YDen(ns, pp, qq) == ns[qq].x - ns[pp].x

YNum(ns, pp, qq, x) ==
  ns[pp].y * YDen(ns, pp, qq) + (x - ns[pp].x) * (ns[qq].y - ns[pp].y)

\* y compared with getY(x): -1 when y < getY(x), 0 when equal, 1 when greater
CmpYOf(ns, pp, qq, x, y) ==
  LET a == y * YDen(ns, pp, qq)
      b == YNum(ns, pp, qq, x)
  IN  IF a < b THEN -1 ELSE IF a = b THEN 0 ELSE 1

\* the same for the Segment object s
GetYDen(ns, s) == YDen(ns, ns[s].p, ns[s].q)
GetYNum(ns, s, x) == YNum(ns, ns[s].p, ns[s].q, x)
CmpY(ns, s, x, y) == CmpYOf(ns, ns[s].p, ns[s].q, x, y)

RECURSIVE Gcd(_, _)
Gcd(a, b) == IF b = 0 THEN a ELSE Gcd(b, a % b)

Abs(a) == IF a < 0 THEN 0 - a ELSE a

\* the value getY(x), a fraction in lowest terms
GetY(ns, s, x) ==
  LET n == GetYNum(ns, s, x)
      d == GetYDen(ns, s)
      g == Gcd(Abs(n), d)
  IN  <<n \div g, d \div g>>

\* Segment.isAbove(other) for a point `other`: getY(other.x) > other.y
IsAbovePoint(ns, s, pt) == CmpY(ns, s, ns[pt].x, ns[pt].y) < 0

\* Segment.isOn(other) for a point `other`
IsOnPoint(ns, s, pt) == CmpY(ns, s, ns[pt].x, ns[pt].y) = 0

\* Segment.isAbove(other) for a segment `other`
IsAboveSegment(ns, s, other) ==
  IF CmpY(ns, s, ns[ns[other].p].x, ns[ns[other].p].y) = 0
  THEN CmpY(ns, s, ns[ns[other].q].x, ns[ns[other].q].y) < 0
  ELSE CmpY(ns, s, ns[ns[other].p].x, ns[ns[other].p].y) < 0

\* ------------------------------------------------------------- equality
\* Segment.__eq__ : by name
SegmentEq(ns, a, b) == ns[a].num = ns[b].num

\* Trapezoid.__eq__ : points by identity, segments by name
TrapezoidEq(ns, a, b) ==
  /\ ns[a].left_point = ns[b].left_point
  /\ ns[a].right_point = ns[b].right_point
  /\ SegmentEq(ns, ns[a].above_segment, ns[b].above_segment)
  /\ SegmentEq(ns, ns[a].below_segment, ns[b].below_segment)

\* Python's a == b on two heap references (either may be None)
PyEq(ns, a, b) ==
  IF a = b THEN TRUE
  ELSE IF IsTrapezoid(ns, a) /\ IsTrapezoid(ns, b) THEN TrapezoidEq(ns, a, b)
  ELSE IF IsSegment(ns, a) /\ IsSegment(ns, b) THEN SegmentEq(ns, a, b)
  ELSE FALSE

\* ------------------------------------------------------ reading the graph
\* LocateStep without the stop at an x-node equal to the query
LocateStepNoStop(ns, point, n) ==
  IF IsPoint(ns, n)
  THEN IF point[1] <= ns[n].x THEN ns[n].left ELSE ns[n].right
  ELSE IF CmpY(ns, n, point[1], point[2]) >= 0
       THEN ns[n].above
       ELSE ns[n].below

\* LocateStep sending a query that lies on the segment of a y-node below
LocateStepOnBelow(ns, point, n) ==
  IF IsPoint(ns, n)
  THEN IF point[1] = ns[n].x
       THEN IF point[2] = ns[n].y THEN n ELSE ns[n].left
       ELSE IF point[1] < ns[n].x THEN ns[n].left ELSE ns[n].right
  ELSE IF CmpY(ns, n, point[1], point[2]) > 0
       THEN ns[n].above
       ELSE ns[n].below

\* one step of locate_point at an x-node or a y-node `n`: the node the search
\* goes to next; an x-node whose point is the query stops the search (n itself)
LocateStep(ns, point, n) ==
  IF IsPoint(ns, n)
  THEN IF point[1] = ns[n].x
       THEN IF point[2] = ns[n].y THEN n ELSE ns[n].left
       ELSE IF point[1] < ns[n].x THEN ns[n].left ELSE ns[n].right
  ELSE IF CmpY(ns, n, point[1], point[2]) >= 0
       THEN ns[n].above
       ELSE ns[n].below

\* locate_point(point, trap_map): a Trapezoid, a point node equal to the
\* query, or None when the search runs into a missing child
RECURSIVE locate_point(_, _, _)
locate_point(ns, point, trap_map) ==
  IF trap_map = None THEN None
  ELSE IF IsTrapezoid(ns, trap_map) THEN trap_map
  ELSE IF LocateStep(ns, point, trap_map) = trap_map THEN trap_map
  ELSE locate_point(ns, point, LocateStep(ns, point, trap_map))

\* rightMostPoint(left, right, cur)
rightMostPoint(ns, left, right, cur) ==
  LET b1 == IF left = None \/ (right # None /\ ns[left].x < ns[right].x)
            THEN right ELSE left
  IN  IF b1 = None \/ (cur # None /\ ns[b1].x < ns[cur].x) THEN cur ELSE b1

\* leftMostPoint(left, right, cur)
leftMostPoint(ns, left, right, cur) ==
  LET b1 == IF left = None \/ (right # None /\ ns[left].x > ns[right].x)
            THEN right ELSE left
  IN  IF b1 = None \/ (cur # None /\ ns[b1].x > ns[cur].x) THEN cur ELSE b1

\* findLeftPointAbove(cur, seg)
RECURSIVE findLeftPointAbove(_, _, _)
findLeftPointAbove(ns, cur, seg) ==
  IF IsPoint(ns, cur)
  THEN IF ns[cur].x > ns[ns[seg].q].x
       THEN findLeftPointAbove(ns, ns[cur].left, seg)
       ELSE IF cur = ns[seg].q THEN None
       ELSE IF cur = ns[seg].p THEN ns[seg].p
       ELSE LET r == findLeftPointAbove(ns, ns[cur].right, seg)
                l == findLeftPointAbove(ns, ns[cur].left, seg)
            IN  IF ~IsAbovePoint(ns, seg, cur)
                THEN rightMostPoint(ns, l, r, cur)
                ELSE rightMostPoint(ns, l, r, None)
  ELSE IF IsSegment(ns, cur)
  THEN IF IsAboveSegment(ns, cur, seg)
       THEN findLeftPointAbove(ns, ns[cur].below, seg)
       ELSE findLeftPointAbove(ns, ns[cur].above, seg)
  ELSE None

\* findLeftPointBelow(cur, seg)
RECURSIVE findLeftPointBelow(_, _, _)
findLeftPointBelow(ns, cur, seg) ==
  IF IsPoint(ns, cur)
  THEN IF ns[cur].x > ns[ns[seg].q].x
       THEN findLeftPointBelow(ns, ns[cur].left, seg)
       ELSE IF cur = ns[seg].q THEN None
       ELSE IF cur = ns[seg].p THEN ns[seg].p
       ELSE LET r == findLeftPointBelow(ns, ns[cur].right, seg)
                l == findLeftPointBelow(ns, ns[cur].left, seg)
            IN  IF IsAbovePoint(ns, seg, cur)
                THEN rightMostPoint(ns, l, r, cur)
                ELSE rightMostPoint(ns, l, r, None)
  ELSE IF IsSegment(ns, cur)
  THEN IF IsAboveSegment(ns, cur, seg)
       THEN findLeftPointBelow(ns, ns[cur].below, seg)
       ELSE findLeftPointBelow(ns, ns[cur].above, seg)
  ELSE None

\* findRightPointAbove(cur, seg)
RECURSIVE findRightPointAbove(_, _, _)
findRightPointAbove(ns, cur, seg) ==
  IF IsPoint(ns, cur)
  THEN IF ns[cur].x < ns[ns[seg].p].x
       THEN findRightPointAbove(ns, ns[cur].right, seg)
       ELSE IF cur = ns[seg].q THEN ns[seg].q
       ELSE IF cur = ns[seg].p THEN None
       ELSE LET r == findRightPointAbove(ns, ns[cur].right, seg)
                l == findRightPointAbove(ns, ns[cur].left, seg)
            IN  IF ~IsAbovePoint(ns, seg, cur)
                THEN leftMostPoint(ns, l, r, cur)
                ELSE leftMostPoint(ns, l, r, None)
  ELSE IF IsSegment(ns, cur)
  THEN IF IsAboveSegment(ns, cur, seg)
       THEN findRightPointAbove(ns, ns[cur].below, seg)
       ELSE findRightPointAbove(ns, ns[cur].above, seg)
  ELSE None

\* findRightPointBelow(cur, seg)
RECURSIVE findRightPointBelow(_, _, _)
findRightPointBelow(ns, cur, seg) ==
  IF IsPoint(ns, cur)
  THEN IF ns[cur].x < ns[ns[seg].p].x
       THEN findRightPointBelow(ns, ns[cur].right, seg)
       ELSE IF cur = ns[seg].q THEN ns[seg].q
       ELSE IF cur = ns[seg].p THEN None
       ELSE LET r == findRightPointBelow(ns, ns[cur].right, seg)
                l == findRightPointBelow(ns, ns[cur].left, seg)
            IN  IF IsAbovePoint(ns, seg, cur)
                THEN leftMostPoint(ns, l, r, cur)
                ELSE leftMostPoint(ns, l, r, None)
  ELSE IF IsSegment(ns, cur)
  THEN IF IsAboveSegment(ns, cur, seg)
       THEN findRightPointBelow(ns, ns[cur].below, seg)
       ELSE findRightPointBelow(ns, ns[cur].above, seg)
  ELSE None

\* ------------------------------------------------------ writing the graph
\* the outcome of a piece of code: the heap it leaves, and whether it raised
Ok(ns) == [nodes |-> ns, fault |-> FALSE]
Raise(ns) == [nodes |-> ns, fault |-> TRUE]

\* replaceChild that looks at the first child only (above, left)
replaceChildFirstOnly(ns, parent, oldChild, newChild) ==
  IF IsSegment(ns, parent)
  THEN IF PyEq(ns, ns[parent].above, oldChild)
       THEN [ns EXCEPT ![parent].above = newChild]
       ELSE ns
  ELSE IF PyEq(ns, ns[parent].left, oldChild)
       THEN [ns EXCEPT ![parent].left = newChild]
       ELSE ns

\* replaceChild that gives both children up for newChild when one of them is
\* oldChild
replaceChildBoth(ns, parent, oldChild, newChild) ==
  IF IsSegment(ns, parent)
  THEN IF PyEq(ns, ns[parent].above, oldChild) \/ PyEq(ns, ns[parent].below, oldChild)
       THEN [ns EXCEPT ![parent].above = newChild, ![parent].below = newChild]
       ELSE ns
  ELSE IF PyEq(ns, ns[parent].left, oldChild) \/ PyEq(ns, ns[parent].right, oldChild)
       THEN [ns EXCEPT ![parent].left = newChild, ![parent].right = newChild]
       ELSE ns

\* replaceChild(oldChild, newChild) of Segment, BeginPoint and EndPoint,
\* called on the object `parent`
replaceChild(ns, parent, oldChild, newChild) ==
  IF IsSegment(ns, parent)
  THEN IF PyEq(ns, ns[parent].above, oldChild)
       THEN [ns EXCEPT ![parent].above = newChild]
       ELSE IF PyEq(ns, ns[parent].below, oldChild)
       THEN [ns EXCEPT ![parent].below = newChild]
       ELSE ns
  ELSE IF PyEq(ns, ns[parent].left, oldChild)
       THEN [ns EXCEPT ![parent].left = newChild]
       ELSE IF PyEq(ns, ns[parent].right, oldChild)
       THEN [ns EXCEPT ![parent].right = newChild]
       ELSE ns

\* SameTrapezoid with the trapezoids above and below the new segment exchanged
SameTrapezoidSwapped(ns, root, tp, tq, line, np, nsg) ==
  IF ~IsTrapezoid(ns, tp)
  THEN [nodes |-> ns, fault |-> TRUE, root |-> root, p |-> None, q |-> None]
  ELSE
  LET pp == Len(ns) + 1
      qq == Len(ns) + 2
      s  == Len(ns) + 3
      A  == Len(ns) + 4
      D  == Len(ns) + 5
      B  == Len(ns) + 6
      C  == Len(ns) + 7
      top == ns[tp].above_segment
      bot == ns[tp].below_segment
      n1 == ns \o << NewPoint("B", line[1][1], line[1][2], ns[tp].parent, np),
                     NewPoint("E", line[2][1], line[2][2], pp, np),
                     NewSegment(pp, qq, qq, nsg),
                     NewTrapezoid(ns[tp].left_point, pp, top, bot, pp),
                     NewTrapezoid(qq, ns[tq].right_point, top, bot, qq),
                     NewTrapezoid(pp, qq, top, s, s),
                     NewTrapezoid(pp, qq, s, bot, s) >>
      n2 == [n1 EXCEPT ![pp].left = A, ![pp].right = qq,
                       ![qq].left = s, ![qq].right = D,
                       ![s].above = C, ![s].below = B]
  IN  IF ns[tp].parent = None
      THEN [nodes |-> n2, fault |-> FALSE, root |-> pp, p |-> pp, q |-> qq]
      ELSE [nodes |-> replaceChild(n2, ns[tp].parent, tp, pp), fault |-> FALSE,
            root |-> root, p |-> pp, q |-> qq]

\* CASE 2 of construct_trapezoidal_map: both end points in the same
\* trapezoid.  The result also carries the new root and the objects p and q.
\* (t_p == t_q with t_p no Trapezoid is t_p = t_q = None: t_p.parent raises.)
SameTrapezoid(ns, root, tp, tq, line, np, nsg) ==
  IF ~IsTrapezoid(ns, tp)
  THEN [nodes |-> ns, fault |-> TRUE, root |-> root, p |-> None, q |-> None]
  ELSE
  LET pp == Len(ns) + 1
      qq == Len(ns) + 2
      s  == Len(ns) + 3
      A  == Len(ns) + 4
      D  == Len(ns) + 5
      B  == Len(ns) + 6
      C  == Len(ns) + 7
      top == ns[tp].above_segment
      bot == ns[tp].below_segment
      n1 == ns \o << NewPoint("B", line[1][1], line[1][2], ns[tp].parent, np),
                     NewPoint("E", line[2][1], line[2][2], pp, np),
                     NewSegment(pp, qq, qq, nsg),
                     NewTrapezoid(ns[tp].left_point, pp, top, bot, pp),
                     NewTrapezoid(qq, ns[tq].right_point, top, bot, qq),
                     NewTrapezoid(pp, qq, top, s, s),
                     NewTrapezoid(pp, qq, s, bot, s) >>
      n2 == [n1 EXCEPT ![pp].left = A, ![pp].right = qq,
                       ![qq].left = s, ![qq].right = D,
                       ![s].above = B, ![s].below = C]
  IN  IF ns[tp].parent = None
      THEN [nodes |-> n2, fault |-> FALSE, root |-> pp, p |-> pp, q |-> qq]
      ELSE [nodes |-> replaceChild(n2, ns[tp].parent, tp, pp), fault |-> FALSE,
            root |-> root, p |-> pp, q |-> qq]

\* CASE 1, "Normal handling of P" / "P is a duplicate point" (lines 376-384):
\* the result carries p and duplicate_p
HandleP(ns, tp, line, np) ==
  IF IsPoint(ns, tp)
  THEN [nodes |-> ns, fault |-> FALSE, pt |-> tp, dup |-> TRUE]
  ELSE IF tp = None
  THEN [nodes |-> ns, fault |-> TRUE, pt |-> None, dup |-> FALSE]
  ELSE LET pp == Len(ns) + 1
           n1 == Append(ns, NewPoint("B", line[1][1], line[1][2],
                                     ns[tp].parent, np))
       IN  IF ns[tp].parent = None
           THEN [nodes |-> n1, fault |-> TRUE, pt |-> pp, dup |-> FALSE]
           ELSE [nodes |-> replaceChild(n1, ns[tp].parent, tp, pp),
                 fault |-> FALSE, pt |-> pp, dup |-> FALSE]

\* CASE 1, "Normal handling of Q" / "Q is a duplicate point" (lines 387-395)
HandleQ(ns, tq, line, np) ==
  IF IsPoint(ns, tq)
  THEN [nodes |-> ns, fault |-> FALSE, pt |-> tq, dup |-> TRUE]
  ELSE IF tq = None
  THEN [nodes |-> ns, fault |-> TRUE, pt |-> None, dup |-> FALSE]
  ELSE LET qq == Len(ns) + 1
           n1 == Append(ns, NewPoint("E", line[2][1], line[2][2],
                                     ns[tq].parent, np))
       IN  IF ns[tq].parent = None
           THEN [nodes |-> n1, fault |-> TRUE, pt |-> qq, dup |-> FALSE]
           ELSE [nodes |-> replaceChild(n1, ns[tq].parent, tq, qq),
                 fault |-> FALSE, pt |-> qq, dup |-> FALSE]

\* lines 408-410 and 423-425: the trapezoid above S ends at t_p.right_point,
\* the one below at findRightPointBelow
PAboveDirect(ns, root, tp, pp, s) ==
  LET rp == ns[tp].right_point
      n1 == Append(ns, NewTrapezoid(pp, rp, ns[tp].above_segment, s, s))
      n2 == [n1 EXCEPT ![s].above = Len(n1)]
      n3 == [n2 EXCEPT ![rp].bullet_lower = GetY(n2, s, n2[rp].x)]
      n4 == Append(n3, NewTrapezoid(pp, findRightPointBelow(n3, root, s), s,
                                    ns[tp].below_segment, s))
  IN  IF rp = None THEN Raise(n2)
      ELSE Ok([n4 EXCEPT ![s].below = Len(n4)])

\* lines 413-415 and 418-420: the trapezoid above S ends at
\* findRightPointAbove, the one below at t_p.right_point
PBelowDirect(ns, root, tp, pp, s) ==
  LET rp == ns[tp].right_point
      n1 == Append(ns, NewTrapezoid(pp, findRightPointAbove(ns, root, s),
                                    ns[tp].above_segment, s, s))
      n2 == [n1 EXCEPT ![s].above = Len(n1)]
      n3 == Append(n2, NewTrapezoid(pp, rp, s, ns[tp].below_segment, s))
      n4 == [n3 EXCEPT ![s].below = Len(n3)]
  IN  IF rp = None THEN Raise(n4)
      ELSE Ok([n4 EXCEPT ![rp].bullet_upper = GetY(n4, s, n4[rp].x)])

\* CASE 1, "if not duplicate_p" (lines 397-425)
AddSegmentOfP(ns, root, tp, pp, qq, nsg) ==
  LET s == Len(ns) + 1
      n1 == Append(ns, NewSegment(pp, qq, pp, nsg))
      n2 == [n1 EXCEPT ![pp].right = s]
      n3 == Append(n2, NewTrapezoid(ns[tp].left_point, pp,
                                    ns[tp].above_segment,
                                    ns[tp].below_segment, pp))
      n4 == [n3 EXCEPT ![pp].left = Len(n3)]
      par == ns[tp].parent
  IN  IF IsBeginPoint(n4, par)
      THEN IF CmpY(n4, s, n4[par].x, n4[par].y) >= 0
           THEN PAboveDirect(n4, root, tp, pp, s)
           ELSE PBelowDirect(n4, root, tp, pp, s)
      ELSE IF IsSegment(n4, par)
      THEN IF CmpY(n4, par, n4[pp].x, n4[pp].y) >= 0
           THEN PBelowDirect(n4, root, tp, pp, s)
           ELSE PAboveDirect(n4, root, tp, pp, s)
      ELSE Ok(n4)

\* lines 439-441: above S starts at t_q.left_point (bullet trimmed before the
\* trapezoid below is made)
QAboveDirectE(ns, root, tq, qq, s) ==
  LET lp == ns[tq].left_point
      n1 == Append(ns, NewTrapezoid(lp, qq, ns[tq].above_segment, s, s))
      n2 == [n1 EXCEPT ![s].above = Len(n1)]
      n3 == [n2 EXCEPT ![lp].bullet_lower = GetY(n2, s, n2[lp].x)]
      n4 == Append(n3, NewTrapezoid(findLeftPointBelow(n3, root, s), qq, s,
                                    ns[tq].below_segment, s))
  IN  IF lp = None THEN Raise(n2)
      ELSE Ok([n4 EXCEPT ![s].below = Len(n4)])

\* lines 454-456: as 439-441, the bullet trimmed last
QAboveDirectS(ns, root, tq, qq, s) ==
  LET lp == ns[tq].left_point
      n1 == Append(ns, NewTrapezoid(lp, qq, ns[tq].above_segment, s, s))
      n2 == [n1 EXCEPT ![s].above = Len(n1)]
      n3 == Append(n2, NewTrapezoid(findLeftPointBelow(n2, root, s), qq, s,
                                    ns[tq].below_segment, s))
      n4 == [n3 EXCEPT ![s].below = Len(n3)]
  IN  IF lp = None THEN Raise(n4)
      ELSE Ok([n4 EXCEPT ![lp].bullet_lower = GetY(n4, s, n4[lp].x)])

\* lines 444-446 and 449-451: below S starts at t_q.left_point
QBelowDirect(ns, root, tq, qq, s) ==
  LET lp == ns[tq].left_point
      n1 == Append(ns, NewTrapezoid(findLeftPointAbove(ns, root, s), qq,
                                    ns[tq].above_segment, s, s))
      n2 == [n1 EXCEPT ![s].above = Len(n1)]
      n3 == Append(n2, NewTrapezoid(lp, qq, s, ns[tq].below_segment, s))
      n4 == [n3 EXCEPT ![s].below = Len(n3)]
  IN  IF lp = None THEN Raise(n4)
      ELSE Ok([n4 EXCEPT ![lp].bullet_upper = GetY(n4, s, n4[lp].x)])

\* CASE 1, "if not duplicate_q" (lines 428-456)
AddSegmentOfQ(ns, root, tq, pp, qq, nsg) ==
  LET s == Len(ns) + 1
      n1 == Append(ns, NewSegment(pp, qq, qq, nsg))
      n2 == [n1 EXCEPT ![qq].left = s]
      n3 == Append(n2, NewTrapezoid(qq, ns[tq].right_point,
                                    ns[tq].above_segment,
                                    ns[tq].below_segment, qq))
      n4 == [n3 EXCEPT ![qq].right = Len(n3)]
      par == ns[tq].parent
  IN  IF IsEndPoint(n4, par)
      THEN IF CmpY(n4, s, n4[par].x, n4[par].y) >= 0
           THEN QAboveDirectE(n4, root, tq, qq, s)
           ELSE QBelowDirect(n4, root, tq, qq, s)
      ELSE IF IsSegment(n4, par)
      THEN IF CmpY(n4, par, n4[pp].x, n4[pp].y) >= 0
           THEN QBelowDirect(n4, root, tq, qq, s)
           ELSE QAboveDirectS(n4, root, tq, qq, s)
      ELSE Ok(n4)

\* BlockTrapezoid with the outer sides exchanged: the upper piece gets the
\* bottom found so far as its top, the lower piece the top as its bottom
BlockTrapezoidSidesExchanged(ns, tree, left_point, right_point, high_trap, low_trap, seg_name) ==
  LET s  == Len(ns) + 1
      n1 == Append(ns, NewSegment(left_point, right_point, ns[tree].parent,
                                  seg_name))
      tl == ns[tree].left_point
      tr == ns[tree].right_point
      aboveL == IsAbovePoint(n1, s, tl)
      above_left == IF aboveL THEN high_trap.left_point ELSE tl
      below_left == IF aboveL THEN tl ELSE low_trap.left_point
      n2 == IF IsOnPoint(n1, s, tl) THEN n1
            ELSE IF aboveL
            THEN [n1 EXCEPT ![tl].bullet_upper = GetY(n1, s, n1[tl].x)]
            ELSE [n1 EXCEPT ![tl].bullet_lower = GetY(n1, s, n1[tl].x)]
      aboveR == IsAbovePoint(n2, s, tr)
      above_right == IF aboveR THEN high_trap.right_point ELSE tr
      below_right == IF aboveR THEN tr ELSE low_trap.right_point
      n3 == IF IsOnPoint(n2, s, tr) THEN n2
            ELSE IF aboveR
            THEN [n2 EXCEPT ![tr].bullet_upper = GetY(n2, s, n2[tr].x)]
            ELSE [n2 EXCEPT ![tr].bullet_lower = GetY(n2, s, n2[tr].x)]
      n4 == Append(n3, NewTrapezoid(above_left, above_right,
                                    low_trap.below_segment, s, s))
      n5 == [n4 EXCEPT ![s].above = Len(n4)]
      n6 == Append(n5, NewTrapezoid(below_left, below_right, s,
                                    high_trap.above_segment, s))
      n7 == [n6 EXCEPT ![s].below = Len(n6)]
  IN  IF tl = None THEN Raise(n1)
      ELSE IF tr = None THEN Raise(n2)
      ELSE IF ns[tree].parent = None THEN Raise(n7)
      ELSE Ok(replaceChild(n7, ns[tree].parent, tree, s))

\* blockBullets, the branch "isinstance(tree, Trapezoid)" (lines 505-535);
\* isAbove(None) raises
BlockTrapezoid(ns, tree, left_point, right_point, high_trap, low_trap, seg_name) ==
  LET s  == Len(ns) + 1
      n1 == Append(ns, NewSegment(left_point, right_point, ns[tree].parent,
                                  seg_name))
      tl == ns[tree].left_point
      tr == ns[tree].right_point
      aboveL == IsAbovePoint(n1, s, tl)
      above_left == IF aboveL THEN high_trap.left_point ELSE tl
      below_left == IF aboveL THEN tl ELSE low_trap.left_point
      n2 == IF IsOnPoint(n1, s, tl) THEN n1
            ELSE IF aboveL
            THEN [n1 EXCEPT ![tl].bullet_upper = GetY(n1, s, n1[tl].x)]
            ELSE [n1 EXCEPT ![tl].bullet_lower = GetY(n1, s, n1[tl].x)]
      aboveR == IsAbovePoint(n2, s, tr)
      above_right == IF aboveR THEN high_trap.right_point ELSE tr
      below_right == IF aboveR THEN tr ELSE low_trap.right_point
      n3 == IF IsOnPoint(n2, s, tr) THEN n2
            ELSE IF aboveR
            THEN [n2 EXCEPT ![tr].bullet_upper = GetY(n2, s, n2[tr].x)]
            ELSE [n2 EXCEPT ![tr].bullet_lower = GetY(n2, s, n2[tr].x)]
      n4 == Append(n3, NewTrapezoid(above_left, above_right,
                                    high_trap.above_segment, s, s))
      n5 == [n4 EXCEPT ![s].above = Len(n4)]
      n6 == Append(n5, NewTrapezoid(below_left, below_right, s,
                                    low_trap.below_segment, s))
      n7 == [n6 EXCEPT ![s].below = Len(n6)]
  IN  IF tl = None THEN Raise(n1)
      ELSE IF tr = None THEN Raise(n2)
      ELSE IF ns[tree].parent = None THEN Raise(n7)
      ELSE Ok(replaceChild(n7, ns[tree].parent, tree, s))

\* a Trapezoid made only to carry the sides found so far (high_trap, low_trap
\* and their shrunk copies); the segment made for it, or for calculations
\* ("_"), is never read and is None here
TempTrapezoid(left_p, right_p, above_seg, below_seg) ==
  [left_point |-> left_p, right_point |-> right_p,
   above_segment |-> above_seg, below_segment |-> below_seg]

\* blockBullets(tree, left_point, right_point, high_trap, low_trap, seg_name,
\*              handleLeftDupes, handleRightDupes)
RECURSIVE blockBullets(_, _, _, _, _, _, _, _, _)
blockBullets(ns, tree, left_point, right_point, high_trap, low_trap, seg_name, handleLeftDupes, handleRightDupes) ==
  IF IsTrapezoid(ns, tree)
  THEN BlockTrapezoid(ns, tree, left_point, right_point, high_trap, low_trap,
                      seg_name)
  ELSE IF IsSegment(ns, tree)
  THEN IF IsAbovePoint(ns, tree, left_point)
       THEN blockBullets(ns, ns[tree].below, left_point, right_point,
              TempTrapezoid(
                rightMostPoint(ns, high_trap.left_point, ns[tree].p, None),
                leftMostPoint(ns, high_trap.right_point, ns[tree].q, None),
                tree, high_trap.below_segment),
              low_trap, seg_name, handleLeftDupes, handleRightDupes)
       ELSE blockBullets(ns, ns[tree].above, left_point, right_point,
              high_trap,
              TempTrapezoid(
                rightMostPoint(ns, low_trap.left_point, ns[tree].p, None),
                leftMostPoint(ns, low_trap.right_point, ns[tree].q, None),
                low_trap.above_segment, tree),
              seg_name, handleLeftDupes, handleRightDupes)
  ELSE IF tree = None
  THEN Raise(ns)
  ELSE IF (~handleLeftDupes /\ tree = left_point)
          \/ (~handleRightDupes /\ tree = right_point)
  THEN Ok(ns)
  ELSE IF ns[tree].x <= ns[left_point].x
  THEN blockBullets(ns, ns[tree].right, left_point, right_point, high_trap,
                    low_trap, seg_name, handleLeftDupes, handleRightDupes)
  ELSE IF ns[tree].x >= ns[right_point].x
  THEN blockBullets(ns, ns[tree].left, left_point, right_point, high_trap,
                    low_trap, seg_name, handleLeftDupes, handleRightDupes)
  ELSE IF CmpYOf(ns, left_point, right_point, ns[tree].x, ns[tree].y) < 0
  THEN LET l == blockBullets(ns, ns[tree].left, left_point, right_point,
                  high_trap,
                  TempTrapezoid(low_trap.left_point, tree, None,
                                low_trap.below_segment),
                  seg_name, handleLeftDupes, handleRightDupes)
       IN  IF l.fault THEN l
           ELSE blockBullets(l.nodes, l.nodes[tree].right, left_point,
                  right_point, high_trap,
                  TempTrapezoid(tree, low_trap.right_point, None,
                                low_trap.below_segment),
                  seg_name, handleLeftDupes, handleRightDupes)
  ELSE LET l == blockBullets(ns, ns[tree].left, left_point, right_point,
                  TempTrapezoid(high_trap.left_point, tree,
                                high_trap.above_segment, None),
                  low_trap, seg_name, handleLeftDupes, handleRightDupes)
       IN  IF l.fault THEN l
           ELSE blockBullets(l.nodes, l.nodes[tree].right, left_point,
                  right_point,
                  TempTrapezoid(tree, high_trap.right_point,
                                high_trap.above_segment, None),
                  low_trap, seg_name, handleLeftDupes, handleRightDupes)

\* the objects made before the loop: bb_top_p, bb_top_q, bb_bot_p, bb_bot_q,
\* bb_top_s, bb_bot_s and the first the_tree
bb_top_p == 1
bb_top_q == 2
bb_bot_p == 3
bb_bot_q == 4
bb_top_s == 5
bb_bot_s == 6
InitialTrapezoid == 7

InitialNodes ==
  << NewPoint("B", bound_box[1][1], bound_box[2][2], None, 0),
     NewPoint("E", bound_box[2][1], bound_box[2][2], None, 0),
     NewPoint("B", bound_box[1][1], bound_box[1][2], None, 0),
     NewPoint("E", bound_box[2][1], bound_box[1][2], None, 0),
     NewSegment(1, 2, None, 0),
     NewSegment(3, 4, None, 0),
     NewTrapezoid(3, 2, 5, 6, None) >>

\* parseInput: one line x1 y1 x2 y2 as [[x, y], [x, y]], left end point first
ParseLine(vals) ==
  IF vals[1] < vals[3]
  THEN << <<vals[1], vals[2]>>, <<vals[3], vals[4]>> >>
  ELSE << <<vals[3], vals[4]>>, <<vals[1], vals[2]>> >>

\* CASE 1 and CASE 3 of construct_trapezoidal_map (lines 373-461): the end
\* points lie in different trapezoids
DifferentTrapezoids(ns, root, tp, tq, line, np, nsg) ==
  LET hp == HandleP(ns, tp, line, np)
      hq == HandleQ(hp.nodes, tq, line, np)
      sp == IF hp.dup THEN Ok(hq.nodes)
            ELSE AddSegmentOfP(hq.nodes, root, tp, hp.pt, hq.pt, nsg)
      sq == IF hq.dup THEN Ok(sp.nodes)
            ELSE AddSegmentOfQ(sp.nodes, root, tq, hp.pt, hq.pt, nsg)
      bb == blockBullets(sq.nodes, root, hp.pt, hq.pt,
                         TempTrapezoid(hp.pt, hq.pt, bb_top_s, None),
                         TempTrapezoid(hp.pt, hq.pt, None, bb_bot_s),
                         nsg, hp.dup, hq.dup)
  IN  IF hp.fault
      THEN [nodes |-> hp.nodes, fault |-> TRUE, root |-> root, p |-> hp.pt,
            q |-> None, dup_p |-> hp.dup, dup_q |-> FALSE]
      ELSE IF hq.fault \/ sp.fault \/ sq.fault \/ bb.fault
      THEN [nodes |-> IF hq.fault THEN hq.nodes
                      ELSE IF sp.fault THEN sp.nodes
                      ELSE IF sq.fault THEN sq.nodes ELSE bb.nodes,
            fault |-> TRUE, root |-> root, p |-> hp.pt, q |-> hq.pt,
            dup_p |-> hp.dup, dup_q |-> hq.dup]
      ELSE [nodes |-> bb.nodes, fault |-> FALSE, root |-> root, p |-> hp.pt,
            q |-> hq.pt, dup_p |-> hp.dup, dup_q |-> hq.dup]

\* "Update bullet paths for P and Q" (lines 464-470)
UpdateBullets(ns, tp, tq, pp, qq, dup_p, dup_q) ==
  LET n1 == IF dup_p THEN ns
            ELSE [ns EXCEPT
                    ![pp].bullet_upper =
                       GetY(ns, ns[tp].above_segment, ns[pp].x),
                    ![pp].bullet_lower =
                       GetY(ns, ns[tp].below_segment, ns[pp].x)]
  IN  IF dup_q THEN n1
      ELSE [n1 EXCEPT
              ![qq].bullet_upper = GetY(n1, n1[tq].above_segment, n1[qq].x),
              ![qq].bullet_lower = GetY(n1, n1[tq].below_segment, n1[qq].x)]

\* the end of one iteration (lines 462-470): the bullets of p and q are set
\* unless the iteration raised before
EndOfIteration(r, tp, tq, dup_p, dup_q) ==
  [nodes |-> IF r.fault THEN r.nodes
             ELSE UpdateBullets(r.nodes, tp, tq, r.p, r.q, dup_p, dup_q),
   fault |-> r.fault, root |-> r.root, p |-> r.p, q |-> r.q,
   dup_p |-> dup_p, dup_q |-> dup_q, t_p |-> tp, t_q |-> tq]

\* the end of an iteration that went through CASE 1 / CASE 3, which assign
\* duplicate_p and duplicate_q
EndOfDifferent(r, tp, tq) == EndOfIteration(r, tp, tq, r.dup_p, r.dup_q)

\* one iteration of "for line in lines" (lines 330-470)
InsertLine(ns, root, line, np, nsg, dup_p, dup_q) ==
  LET tp == locate_point(ns, line[1], root)
      tq == locate_point(ns, line[2], root)
  IN  IF PyEq(ns, tp, tq)
      THEN EndOfIteration(SameTrapezoid(ns, root, tp, tq, line, np, nsg),
                          tp, tq, dup_p, dup_q)
      ELSE EndOfDifferent(DifferentTrapezoids(ns, root, tp, tq, line, np,
                                              nsg), tp, tq)

\* --------------------------------------------------- the adjacency matrix
\* the outcome of name_and_count_traps: the three counts it returns, the
\* list trap_set, the names given to Trapezoid objects, whether it raised
CountResult(b_count, e_count, t_count, trap_set, nm, flt) ==
  [b_count |-> b_count, e_count |-> e_count, t_count |-> t_count, trap_set |-> trap_set, name |-> nm, fault |-> flt]

\* "trap_set[trap_set.index(trap_map)]": the first Trapezoid of the list that
\* is == trap_map, None when there is none ("trap_map in trap_set" is false)
FirstEqual(ns, trap_set, trap_map) ==
  IF \E i \in DOMAIN trap_set : PyEq(ns, trap_set[i], trap_map)
  THEN trap_set[CHOOSE i \in DOMAIN trap_set :
                  /\ PyEq(ns, trap_set[i], trap_map)
                  /\ \A j \in 1..(i - 1) : ~PyEq(ns, trap_set[j], trap_map)]
  ELSE None

\* name_and_count_traps, lines 742-749: trap_map is a Trapezoid, or None
\* (None.setName raises)
NameTrapezoid(ns, trap_map, trap_set, nm, cur_b_count, cur_e_count, cur_t_count) ==
  IF trap_map = None
  THEN CountResult(cur_b_count, cur_e_count, cur_t_count, trap_set, nm, TRUE)
  ELSE IF FirstEqual(ns, trap_set, trap_map) # None
  THEN CountResult(cur_b_count, cur_e_count, cur_t_count, trap_set,
                   (trap_map :> nm[FirstEqual(ns, trap_set, trap_map)]) @@ nm, FALSE)
  ELSE CountResult(cur_b_count, cur_e_count, cur_t_count + 1,
                   Append(trap_set, trap_map),
                   (trap_map :> (cur_t_count + 1)) @@ nm, FALSE)

\* the return statement of a point or segment branch of name_and_count_traps
\* (lines 733, 737, 741): the counts of the two children added, the Trapezoid
\* count that of the second child
AddCounts(l, r, is_b, is_e) ==
  IF r.fault THEN r
  ELSE [r EXCEPT !.b_count = l.b_count + r.b_count + is_b,
                 !.e_count = l.e_count + r.e_count + is_e]

\* name_and_count_traps(trap_map, trap_set, cur_b_count, cur_e_count,
\*                      cur_t_count)
RECURSIVE name_and_count_traps(_, _, _, _, _, _, _)
RECURSIVE CountSecond(_, _, _, _, _, _, _)
CountSecond(ns, child, l, cur_b_count, cur_e_count, is_b, is_e) ==
  IF l.fault THEN l
  ELSE AddCounts(l, name_and_count_traps(ns, child, l.trap_set, l.name, cur_b_count, cur_e_count, l.t_count), is_b, is_e)

name_and_count_traps(ns, trap_map, trap_set, nm, cur_b_count, cur_e_count, cur_t_count) ==
  IF IsBeginPoint(ns, trap_map)
  THEN CountSecond(ns, ns[trap_map].right,
         name_and_count_traps(ns, ns[trap_map].left, trap_set, nm, cur_b_count, cur_e_count, cur_t_count),
         cur_b_count, cur_e_count, 1, 0)
  ELSE IF IsEndPoint(ns, trap_map)
  THEN CountSecond(ns, ns[trap_map].right,
         name_and_count_traps(ns, ns[trap_map].left, trap_set, nm, cur_b_count, cur_e_count, cur_t_count),
         cur_b_count, cur_e_count, 0, 1)
  ELSE IF IsSegment(ns, trap_map)
  THEN CountSecond(ns, ns[trap_map].below,
         name_and_count_traps(ns, ns[trap_map].above, trap_set, nm, cur_b_count, cur_e_count, cur_t_count),
         cur_b_count, cur_e_count, 0, 0)
  ELSE NameTrapezoid(ns, trap_map, trap_set, nm, cur_b_count, cur_e_count, cur_t_count)

\* the row / column index populate_adjacency_matrix computes for node n from
\* its name (lines 763-781): P_k at k-1, Q_k after the begin points, S_k after
\* the points, T_k after the lines
NodeIndex(ns, nm, n, num_begin_points, num_end_points, num_lines) ==
  IF IsBeginPoint(ns, n) THEN ns[n].num - 1
  ELSE IF IsEndPoint(ns, n) THEN ns[n].num + num_begin_points - 1
  ELSE IF IsSegment(ns, n)
  THEN ns[n].num + num_begin_points + num_end_points - 1
  ELSE nm[n] + num_begin_points + num_end_points + num_lines - 1

\* "matrix[row][col] = 1" on the list of lists (indices from 0): an index
\* past the end raises IndexError
SetEntry(w, row, col) ==
  IF w.fault THEN w
  ELSE IF row >= Len(w.matrix) \/ col >= Len(w.matrix)
  THEN [w EXCEPT !.fault = TRUE]
  ELSE [w EXCEPT !.matrix[row + 1][col + 1] = 1]

\* populate_adjacency_matrix(trap_map, matrix, num_begin_points,
\*                           num_end_points, num_lines); the name of a child
\* that is None raises
RECURSIVE populate_adjacency_matrix(_, _, _, _, _, _, _)
RECURSIVE PopulateNext(_, _, _, _, _, _, _)
PopulateNext(ns, nm, child, w, num_begin_points, num_end_points, num_lines) ==
  IF w.fault THEN w
  ELSE populate_adjacency_matrix(ns, nm, child, w.matrix, num_begin_points, num_end_points, num_lines)

RECURSIVE PopulateNode(_, _, _, _, _, _, _, _, _)
PopulateNode(ns, nm, trap_map, first, second, mx, num_begin_points, num_end_points, num_lines) ==
  IF first = None \/ second = None
  THEN [matrix |-> mx, fault |-> TRUE]
  ELSE PopulateNext(ns, nm, second,
         PopulateNext(ns, nm, first,
           SetEntry(SetEntry([matrix |-> mx, fault |-> FALSE],
                             NodeIndex(ns, nm, first, num_begin_points, num_end_points, num_lines),
                             NodeIndex(ns, nm, trap_map, num_begin_points, num_end_points, num_lines)),
                    NodeIndex(ns, nm, second, num_begin_points, num_end_points, num_lines),
                    NodeIndex(ns, nm, trap_map, num_begin_points, num_end_points, num_lines)),
           num_begin_points, num_end_points, num_lines),
         num_begin_points, num_end_points, num_lines)

populate_adjacency_matrix(ns, nm, trap_map, mx, num_begin_points, num_end_points, num_lines) ==
  IF IsPoint(ns, trap_map)
  THEN PopulateNode(ns, nm, trap_map, ns[trap_map].left, ns[trap_map].right, mx, num_begin_points, num_end_points, num_lines)
  ELSE IF IsSegment(ns, trap_map)
  THEN PopulateNode(ns, nm, trap_map, ns[trap_map].above, ns[trap_map].below, mx, num_begin_points, num_end_points, num_lines)
  ELSE [matrix |-> mx, fault |-> FALSE]

\* "[[0 for x in range(matrix_dim)] for y in range(matrix_dim)]"
ZeroMatrix(matrix_dim) == [y \in 1..matrix_dim |-> [x \in 1..matrix_dim |-> 0]]

\* create_adjacency_matrix after the names are given (lines 855-858)
FillMatrix(ns, c, trap_map, num_lines) ==
  IF c.fault THEN [name |-> c.name, matrix |-> << >>, fault |-> TRUE]
  ELSE [name |-> c.name] @@
       populate_adjacency_matrix(ns, c.name, trap_map,
         ZeroMatrix(c.b_count + c.e_count + c.t_count + num_lines),
         c.b_count, c.e_count, num_lines)

\* create_adjacency_matrix(trap_map, num_lines), without the writing of
\* output.txt
create_adjacency_matrix(ns, trap_map, num_lines) ==
  FillMatrix(ns, name_and_count_traps(ns, trap_map, << >>, << >>, 0, 0, 0), trap_map, num_lines)

\* the sum of column i (from 0) that create_adjacency_matrix prints in the
\* last line of output.txt (lines 872-874)
RECURSIVE SumDown(_, _, _)
SumDown(m, i, j) == IF j = 0 THEN 0 ELSE SumDown(m, i, j - 1) + m[j][i + 1]

col_sum(m, i) == SumDown(m, i, Len(m))

\* ------------------------------------------------------------ the system
Init ==
  /\ nodes = InitialNodes
  /\ the_tree = InitialTrapezoid
  /\ next_point = 0
  /\ next_segment = 0
  /\ duplicate_p = FALSE
  /\ duplicate_q = FALSE
  /\ t_p = None
  /\ t_q = None
  /\ p = None
  /\ q = None
  /\ lines = << >>
  /\ fault = FALSE
  /\ pc = "construct"
  /\ name = << >>
  /\ matrix = << >>
  /\ input_val = << >>
  /\ result_path = << >>

\* the loop of construct_trapezoidal_map takes the next line of the input
Insert(vals) ==
  /\ pc = "construct"
  /\ ~fault
  /\ Len(lines) < MaxLines
  /\ \E r \in { InsertLine(nodes, the_tree, ParseLine(vals), next_point + 1, next_segment + 1, duplicate_p, duplicate_q) } :
       /\ nodes' = r.nodes
       /\ the_tree' = r.root
       /\ fault' = r.fault
       /\ p' = r.p
       /\ q' = r.q
       /\ t_p' = r.t_p
       /\ t_q' = r.t_q
       /\ duplicate_p' = r.dup_p
       /\ duplicate_q' = r.dup_q
  /\ lines' = Append(lines, ParseLine(vals))
  /\ next_point' = next_point + 1
  /\ next_segment' = next_segment + 1
  /\ UNCHANGED <<pc, name, matrix, input_val, result_path>>

\* main after the loop: create_adjacency_matrix(trap_map, num_lines), the
\* file holding as many lines as its first line says; an exception ends the
\* program
CreateMatrix ==
  /\ pc = "construct"
  /\ ~fault
  /\ \E r \in { create_adjacency_matrix(nodes, the_tree, Len(lines)) } :
       /\ name' = r.name
       /\ matrix' = r.matrix
       /\ fault' = r.fault
       /\ pc' = IF r.fault THEN pc ELSE "prompt"
  /\ UNCHANGED <<nodes, the_tree, next_point, next_segment, duplicate_p, duplicate_q, t_p, t_q, p, q, lines, input_val, result_path>>

\* the name of node n as the prompt prints it: the letter and the number
NodeName(ns, nm, n) ==
  IF IsBeginPoint(ns, n) THEN <<"P", ns[n].num>>
  ELSE IF IsEndPoint(ns, n) THEN <<"Q", ns[n].num>>
  ELSE IF IsSegment(ns, n) THEN <<"S", ns[n].num>>
  ELSE <<"T", nm[n]>>

\* ResultPath without the reverse of line 906: the names from trap up to
\* the node without a parent, in the order they are met
RECURSIVE ResultPathNotReversed(_, _, _)
ResultPathNotReversed(ns, nm, trap) ==
  IF ns[trap].parent = None THEN << NodeName(ns, nm, trap) >>
  ELSE << NodeName(ns, nm, trap) >> \o ResultPathNotReversed(ns, nm, ns[trap].parent)

\* cli_point_locate_prompt, lines 902-906: the names from trap up along the
\* parent pointers, reversed
RECURSIVE ResultPath(_, _, _)
ResultPath(ns, nm, trap) ==
  IF ns[trap].parent = None THEN << NodeName(ns, nm, trap) >>
  ELSE Append(ResultPath(ns, nm, ns[trap].parent), NodeName(ns, nm, trap))

\* one turn of the loop of cli_point_locate_prompt for a point entered: the
\* path printed; when locate_point returns None the exception is caught,
\* nothing is printed and the prompt goes on
Prompt(pt) ==
  /\ pc = "prompt"
  /\ ~fault
  /\ input_val' = pt
  /\ result_path' = IF locate_point(nodes, pt, the_tree) = None THEN << >>
                    ELSE ResultPath(nodes, name, locate_point(nodes, pt, the_tree))
  /\ UNCHANGED <<nodes, the_tree, next_point, next_segment, duplicate_p, duplicate_q, t_p, t_q, p, q, lines, fault, pc, name, matrix>>

Next ==
  \/ \E vals \in RawLines : Insert(vals)
  \/ CreateMatrix
  \/ \E pt \in PromptPoints : Prompt(pt)

Spec == Init /\ [][Next]_vars

\* ================================================================ claims
\* ------------------------------------------------- vocabulary of the claims
\* the nodes reachable from n along child edges (left/right, above/below)
RECURSIVE Reach(_, _)
Reach(ns, n) ==
  IF n = None THEN {}
  ELSE IF IsTrapezoid(ns, n) THEN {n}
  ELSE IF IsSegment(ns, n)
  THEN {n} \cup Reach(ns, ns[n].above) \cup Reach(ns, ns[n].below)
  ELSE {n} \cup Reach(ns, ns[n].left) \cup Reach(ns, ns[n].right)

Reachable == Reach(nodes, the_tree)
Leaves == {n \in Reachable : IsTrapezoid(nodes, n)}
XNodes == {n \in Reachable : IsPoint(nodes, n)}
YNodes == {n \in Reachable : IsSegment(nodes, n)}

\* the query points: the integer points of the bounding rectangle
Queries ==
  {<<x, y>> : x \in bound_box[1][1]..bound_box[2][1],
              y \in bound_box[1][2]..bound_box[2][2]}

StrictlyInside(pt) ==
  /\ bound_box[1][1] < pt[1] /\ pt[1] < bound_box[2][1]
  /\ bound_box[1][2] < pt[2] /\ pt[2] < bound_box[2][2]

\* twice the signed area of the triangle a, b, c
Orient(a, b, c) ==
  (b[1] - a[1]) * (c[2] - a[2]) - (b[2] - a[2]) * (c[1] - a[1])

Sign(v) == IF v < 0 THEN -1 ELSE IF v = 0 THEN 0 ELSE 1

\* pt lies on the closed segment l
OnLine(l, pt) ==
  /\ Orient(l[1], l[2], pt) = 0
  /\ l[1][1] <= pt[1] /\ pt[1] <= l[2][1]

\* the segments a and b cross at a point interior to both
ProperlyCross(a, b) ==
  /\ Sign(Orient(b[1], b[2], a[1])) * Sign(Orient(b[1], b[2], a[2])) < 0
  /\ Sign(Orient(a[1], a[2], b[1])) * Sign(Orient(a[1], a[2], b[2])) < 0

\* the segments a and b meet elsewhere than in a common end point
Conflict(a, b) ==
  \/ ProperlyCross(a, b)
  \/ \E e \in {a[1], a[2]} : OnLine(b, e) /\ e # b[1] /\ e # b[2]
  \/ \E e \in {b[1], b[2]} : OnLine(a, e) /\ e # a[1] /\ e # a[2]
  \/ a = b

\* the precondition of insert, for a whole input: every end point strictly
\* inside the rectangle, left end point first, no two segments crossing
ValidLines(ls) ==
  /\ \A i \in 1..Len(ls) :
       /\ StrictlyInside(ls[i][1]) /\ StrictlyInside(ls[i][2])
       /\ ls[i][1][1] < ls[i][2][1]
  /\ \A i \in 1..Len(ls) : \A j \in 1..Len(ls) :
       i < j => ~Conflict(ls[i], ls[j])

\* the query lies on no inserted segment
OnNoSegment(pt) == \A i \in 1..Len(lines) : ~OnLine(lines[i], pt)

\* the query is an end point of no inserted segment
NoEndPoint(pt) == \A i \in 1..Len(lines) : pt # lines[i][1] /\ pt # lines[i][2]

\* the trapezoid object t holds pt: between its left and right point in x,
\* strictly between its bottom and its top segment in y
Holds(ns, t, pt) ==
  /\ ns[t].left_point # None /\ ns[t].right_point # None
  /\ ns[ns[t].left_point].x <= pt[1] /\ pt[1] <= ns[ns[t].right_point].x
  /\ CmpY(ns, ns[t].below_segment, pt[1], pt[2]) > 0
  /\ CmpY(ns, ns[t].above_segment, pt[1], pt[2]) < 0

\* pt lies in the interior of the trapezoid object t
HoldsInside(ns, t, pt) ==
  /\ Holds(ns, t, pt)
  /\ ns[ns[t].left_point].x < pt[1] /\ pt[1] < ns[ns[t].right_point].x

\* C1: after valid insertions, locate_point returns for every query point
\* strictly inside the rectangle and on no segment a trapezoid at a leaf that
\* holds it: left_point.x <= x <= right_point.x, below.y(x) < y < above.y(x)
C1_LocateFindsHolder ==
  (ValidLines(lines) /\ ~fault) =>
    \A pt \in Queries :
      (StrictlyInside(pt) /\ OnNoSegment(pt)) =>
        LET t == locate_point(nodes, pt, the_tree)
        IN  IsTrapezoid(nodes, t) /\ Holds(nodes, t, pt)

\* C2: after valid insertions the leaves tile the rectangle: every point
\* strictly inside the rectangle, on no segment and on no vertical through an
\* end point lies in the interior of a leaf (cover), and never in the
\* interiors of two leaves that are different trapezoids (disjoint)
C2_LeavesTile ==
  (ValidLines(lines) /\ ~fault) =>
    \A pt \in Queries :
      (/\ StrictlyInside(pt) /\ OnNoSegment(pt)
       /\ \A i \in 1..Len(lines) :
            pt[1] # lines[i][1][1] /\ pt[1] # lines[i][2][1]) =>
        /\ \E u \in Leaves : HoldsInside(nodes, u, pt)
        /\ \A u \in Leaves : \A v \in Leaves :
             (HoldsInside(nodes, u, pt) /\ HoldsInside(nodes, v, pt))
               => TrapezoidEq(nodes, u, v)

\* C3: after valid insertions locate_point is total and ends at a leaf: for
\* every query point of the rectangle that is no end point of a segment it
\* returns a Trapezoid, never None
C3_LocateEndsAtLeaf ==
  (ValidLines(lines) /\ ~fault) =>
    \A pt \in Queries :
      NoEndPoint(pt) => IsTrapezoid(nodes, locate_point(nodes, pt, the_tree))

\* C4: under its precondition every insertion runs to completion: no
\* exception is raised while valid lines are inserted
C4_InsertTotal == ValidLines(lines) => ~fault

\* the nodes locate_point visits for `point`, from trap_map down to its result
RECURSIVE LocatePath(_, _, _)
LocatePath(ns, point, trap_map) ==
  IF trap_map = None THEN << >>
  ELSE IF IsTrapezoid(ns, trap_map) THEN <<trap_map>>
  ELSE IF LocateStep(ns, point, trap_map) = trap_map THEN <<trap_map>>
  ELSE <<trap_map>> \o LocatePath(ns, point, LocateStep(ns, point, trap_map))

\* the search for `point` from the root visits node n
Visits(point, n) ==
  \E i \in DOMAIN LocatePath(nodes, point, the_tree) :
    LocatePath(nodes, point, the_tree)[i] = n

\* C5 as stated: at an x-node every query with x = pt.x goes to the left
\* child, also the query with y = pt.y
C5_EqualXGoesLeft ==
  \A n \in XNodes : \A pt \in Queries :
    (pt[1] = nodes[n].x) => LocateStep(nodes, pt, n) = nodes[n].left

\* C5 amended: at an x-node a query with x < pt.x goes to the left child, one
\* with x > pt.x to the right child, one with x = pt.x and y # pt.y to the left
\* child; the query equal to pt ends the search: locate_point returns the
\* x-node itself
C5_XNodeRouting ==
  \A n \in XNodes : \A pt \in Queries :
    /\ (pt[1] < nodes[n].x) => LocateStep(nodes, pt, n) = nodes[n].left
    /\ (pt[1] > nodes[n].x) => LocateStep(nodes, pt, n) = nodes[n].right
    /\ (pt[1] = nodes[n].x /\ pt[2] # nodes[n].y)
         => LocateStep(nodes, pt, n) = nodes[n].left
    /\ (pt[1] = nodes[n].x /\ pt[2] = nodes[n].y)
         => locate_point(nodes, pt, n) = n

\* C5 witness: a search from the root reaches an x-node with the query on its
\* vertical and goes left, and another search ends at an x-node
C5_Witness ==
  /\ \E n \in XNodes : \E pt \in Queries :
       /\ pt[1] = nodes[n].x /\ pt[2] # nodes[n].y
       /\ Visits(pt, n) /\ Visits(pt, nodes[n].left)
  /\ \E n \in XNodes :
       locate_point(nodes, <<nodes[n].x, nodes[n].y>>, the_tree) = n

\* C6: at a y-node a query above the segment goes to the above child, one
\* below it to the below child, one on the segment to the above child
C6_YNodeRouting ==
  \A n \in YNodes : \A pt \in Queries :
    /\ (CmpY(nodes, n, pt[1], pt[2]) > 0)
         => LocateStep(nodes, pt, n) = nodes[n].above
    /\ (CmpY(nodes, n, pt[1], pt[2]) < 0)
         => LocateStep(nodes, pt, n) = nodes[n].below
    /\ (CmpY(nodes, n, pt[1], pt[2]) = 0)
         => LocateStep(nodes, pt, n) = nodes[n].above

\* C6 witness: a search from the root for a point on an inserted segment
\* reaches the y-node of that segment and goes on in its above child, which
\* is not its below child
C6_Witness ==
  \E n \in YNodes : \E pt \in Queries :
    /\ CmpY(nodes, n, pt[1], pt[2]) = 0
    /\ nodes[nodes[n].p].x < pt[1] /\ pt[1] < nodes[nodes[n].q].x
    /\ nodes[n].above # None /\ nodes[n].above # nodes[n].below
    /\ Visits(pt, n) /\ Visits(pt, nodes[n].above)

\* the line the last step inserted
LastLine == lines[Len(lines)]

\* C7: an insertion of a segment that properly crosses an inserted segment
\* is refused and leaves every node, every child edge and the root unchanged
C7_CrossingLeavesMapUnchanged ==
  [][(/\ lines' # lines
      /\ ValidLines(lines)
      /\ StrictlyInside(lines'[Len(lines')][1])
      /\ StrictlyInside(lines'[Len(lines')][2])
      /\ \E i \in 1..Len(lines) :
           ProperlyCross(lines'[Len(lines')], lines[i]))
       => (nodes' = nodes /\ the_tree' = the_tree)]_vars

\* pt lies outside the bounding rectangle
OutsideBox(pt) ==
  \/ pt[1] < bound_box[1][1] \/ pt[1] > bound_box[2][1]
  \/ pt[2] < bound_box[1][2] \/ pt[2] > bound_box[2][2]

\* C8: an insertion of a segment with an end point outside the bounding
\* rectangle is refused: no node made for it is in the search structure
C8_OutOfBoundsAddsNoNode ==
  [][(/\ lines' # lines
      /\ ValidLines(lines)
      /\ \/ OutsideBox(lines'[Len(lines')][1])
         \/ OutsideBox(lines'[Len(lines')][2]))
       => (\A n \in Reach(nodes', the_tree') : n <= Len(nodes))]_vars

\* the trapezoid object t has these four sides
HasSides(ns, t, left_p, right_p, above_seg, below_seg) ==
  /\ IsTrapezoid(ns, t)
  /\ ns[t].left_point = left_p /\ ns[t].right_point = right_p
  /\ ns[t].above_segment = above_seg /\ ns[t].below_segment = below_seg

\* the children of node n
Children(ns, n) ==
  IF IsSegment(ns, n) THEN {ns[n].above, ns[n].below}
  ELSE IF IsPoint(ns, n) THEN {ns[n].left, ns[n].right}
  ELSE {}

\* the last step took CASE 2: P and Q were located in the same trapezoid
LastWasSameTrapezoid ==
  Len(lines) > 0 /\ IsTrapezoid(nodes, t_p) /\ PyEq(nodes, t_p, t_q)

\* C9: an insertion with P and Q located in the same trapezoid T puts in the
\* place of T's leaf x-node(P) with left child A = (T.leftP, P, T.top,
\* T.bottom) and right child x-node(Q); x-node(Q) has right child
\* D = (Q, T.rightP, T.top, T.bottom) and left child y-node(s); y-node(s) has
\* above child B = (P, Q, T.top, s) and below child C = (P, Q, s, T.bottom);
\* one segment inserted into the initial map gives exactly 4 trapezoids
C9_SingleTrapezoidSplit ==
  LastWasSameTrapezoid =>
    LET T == nodes[t_p]
        s == nodes[q].left
    IN  /\ IsBeginPoint(nodes, p) /\ <<nodes[p].x, nodes[p].y>> = LastLine[1]
        /\ IsEndPoint(nodes, q) /\ <<nodes[q].x, nodes[q].y>> = LastLine[2]
        /\ HasSides(nodes, nodes[p].left, T.left_point, p,
                    T.above_segment, T.below_segment)
        /\ nodes[p].right = q
        /\ HasSides(nodes, nodes[q].right, q, T.right_point,
                    T.above_segment, T.below_segment)
        /\ IsSegment(nodes, s) /\ nodes[s].p = p /\ nodes[s].q = q
        /\ HasSides(nodes, nodes[s].above, p, q, T.above_segment, s)
        /\ HasSides(nodes, nodes[s].below, p, q, s, T.below_segment)
        /\ IF T.parent = None
           THEN the_tree = p
           ELSE /\ p \in Children(nodes, T.parent)
                /\ t_p \notin Children(nodes, T.parent)
        /\ (Len(lines) = 1 => Cardinality(Leaves) = 4)

\* C9 witness: a valid single-trapezoid insertion into a trapezoid that has a
\* parent (the map held a segment before), the new x-node now being a child
\* of that parent
C9_Witness ==
  /\ LastWasSameTrapezoid /\ ~fault /\ ValidLines(lines)
  /\ nodes[t_p].parent # None
  /\ p \in Children(nodes, nodes[t_p].parent)
  /\ p \in Reachable

\* C10: after a single-trapezoid insertion into T no search from the root
\* ends at the un-split T any more (at a leaf with T's left point, right
\* point, top and bottom)
C10_NoPathToReplacedTrapezoid ==
  (LastWasSameTrapezoid /\ ValidLines(lines) /\ ~fault) =>
    \A pt \in Queries :
      LET r == locate_point(nodes, pt, the_tree)
      IN  ~(IsTrapezoid(nodes, r) /\ TrapezoidEq(nodes, r, t_p))

\* the end points of the Segment object s, as coordinates
SegLine(ns, s) ==
  << <<ns[ns[s].p].x, ns[ns[s].p].y>>, <<ns[ns[s].q].x, ns[ns[s].q].y>> >>

\* the last step went through CASE 1 / CASE 3: P and Q were located in
\* different trapezoids (or at existing points)
LastWasDifferent == Len(lines) > 0 /\ ~PyEq(nodes, t_p, t_q)

\* the trapezoid object t is a piece cut by the last inserted segment: that
\* segment is its bottom (an upper piece) or its top (a lower piece)
PieceOfLast(t) ==
  \/ SegLine(nodes, nodes[t].below_segment) = LastLine
  \/ SegLine(nodes, nodes[t].above_segment) = LastLine

\* the trapezoid objects a and b have the same top and bottom and a wall in
\* common: the right point of a is the left point of b
AdjacentSamePieces(a, b) ==
  /\ SegLine(nodes, nodes[a].above_segment) = SegLine(nodes, nodes[b].above_segment)
  /\ SegLine(nodes, nodes[a].below_segment) = SegLine(nodes, nodes[b].below_segment)
  /\ nodes[a].right_point # None
  /\ nodes[a].right_point = nodes[b].left_point

\* C11: after a valid insertion through several trapezoids, upper (lower)
\* pieces of the new segment with the same top, the same bottom and a common
\* wall are merged into one trapezoid: no two leaves are such pieces side by
\* side
C11_AdjacentPiecesMerged ==
  (LastWasDifferent /\ ValidLines(lines) /\ ~fault) =>
    \A a \in Leaves : \A b \in Leaves :
      (PieceOfLast(a) /\ PieceOfLast(b)) => ~AdjacentSamePieces(a, b)

\* the height of segment a at x compared with the height of segment b at x:
\* -1 when a is lower, 0 when they meet, 1 when a is higher
CmpSegAt(ns, a, b, x) ==
  Sign(GetYNum(ns, a, x) * GetYDen(ns, b) - GetYNum(ns, b, x) * GetYDen(ns, a))

\* the top of trapezoid object t is strictly above its bottom over the open
\* interval between its left and its right point (both are lines: it is
\* enough that the top is not lower at either end and higher at one)
TopAboveBottom(ns, t) ==
  /\ ns[t].left_point # None /\ ns[t].right_point # None
  /\ ns[ns[t].left_point].x < ns[ns[t].right_point].x
  /\ CmpSegAt(ns, ns[t].above_segment, ns[t].below_segment, ns[ns[t].left_point].x) >= 0
  /\ CmpSegAt(ns, ns[t].above_segment, ns[t].below_segment, ns[ns[t].right_point].x) >= 0
  /\ \/ CmpSegAt(ns, ns[t].above_segment, ns[t].below_segment, ns[ns[t].left_point].x) > 0
     \/ CmpSegAt(ns, ns[t].above_segment, ns[t].below_segment, ns[ns[t].right_point].x) > 0

\* C12: after valid insertions every trapezoid at a leaf has
\* left_point.x < right_point.x and its top strictly above its bottom over
\* the open interval between them
C12_TopAboveBottom ==
  (ValidLines(lines) /\ ~fault) => \A t \in Leaves : TopAboveBottom(nodes, t)

\* the nodes reached from the set S along child edges, S included (a least
\* fixed point, defined also when the edges form a cycle)
RECURSIVE Closure(_, _)
Closure(ns, S) ==
  LET T == S \cup ((UNION {Children(ns, n) : n \in S}) \ {None})
  IN  IF T = S THEN S ELSE Closure(ns, T)

\* the proper descendants of node n
Descendants(ns, n) == Closure(ns, Children(ns, n) \ {None})

\* the Trapezoid object t is still where it was made: it has not been
\* replaced (a Trapezoid is made as a child of its parent, or as the first
\* the_tree, and replaceChild takes it out of its parent)
NotReplaced(ns, root, t) ==
  /\ IsTrapezoid(ns, t)
  /\ IF ns[t].parent = None THEN root = t
     ELSE t \in Children(ns, ns[t].parent)

\* C13: after every valid insertion the search structure has a single root
\* (the_tree, the only node in it without a parent), no node is its own
\* descendant along child edges, and every Trapezoid made and not replaced
\* since is reachable from the root
C13_RootedAcyclicAllLeaves ==
  (ValidLines(lines) /\ ~fault) =>
    /\ the_tree # None
    /\ \A n \in Closure(nodes, {the_tree}) :
         /\ (nodes[n].parent = None) <=> (n = the_tree)
         /\ n \notin Descendants(nodes, n)
    /\ \A t \in 1..Len(nodes) :
         NotReplaced(nodes, the_tree, t) => t \in Closure(nodes, {the_tree})

\* C13 witness: a valid input of three segments has been inserted, the last
\* through several trapezoids, and the structure holds x-nodes, y-nodes and
\* more than six leaves
C13_Witness ==
  /\ ValidLines(lines) /\ ~fault /\ Len(lines) = 3 /\ LastWasDifferent
  /\ XNodes # {} /\ YNodes # {}
  /\ Cardinality(Leaves) > 6

\* the counts create_adjacency_matrix gets from name_and_count_traps
Counts == name_and_count_traps(nodes, the_tree, << >>, << >>, 0, 0, 0)

\* the row and column of node n in the matrix
IndexOf(n) == NodeIndex(nodes, name, n, Counts.b_count, Counts.e_count, Len(lines))

\* create_adjacency_matrix has run and has built the matrix
MatrixBuilt == pc = "prompt"

\* C14: in the matrix built after valid insertions the column of every
\* x-node and of every y-node of the structure sums to exactly 2, the column
\* of every trapezoid to 0
C14_ColumnSums ==
  (MatrixBuilt /\ ValidLines(lines)) =>
    /\ \A n \in XNodes \cup YNodes :
         IndexOf(n) < Len(matrix) /\ col_sum(matrix, IndexOf(n)) = 2
    /\ \A n \in Leaves :
         IndexOf(n) < Len(matrix) /\ col_sum(matrix, IndexOf(n)) = 0

\* the coordinates of the point object pt, None for None
PointOf(ns, pt) == IF pt = None THEN None ELSE <<ns[pt].x, ns[pt].y>>

\* the four sides of the trapezoid object t as coordinates
LeafSides(ns, t) ==
  << PointOf(ns, ns[t].left_point), PointOf(ns, ns[t].right_point),
     SegLine(ns, ns[t].above_segment), SegLine(ns, ns[t].below_segment) >>

\* the set of leaf trapezoids of the structure under root
LeafSet(ns, root) ==
  {LeafSides(ns, t) : t \in {n \in Reach(ns, root) : IsTrapezoid(ns, n)}}

\* construct_trapezoidal_map run on the first k lines of ls, from the
\* objects made before the loop; an exception ends it
RECURSIVE BuildLines(_, _)
BuildLines(ls, k) ==
  IF k = 0
  THEN [nodes |-> InitialNodes, root |-> InitialTrapezoid, fault |-> FALSE, dup_p |-> FALSE, dup_q |-> FALSE]
  ELSE LET b == BuildLines(ls, k - 1)
       IN  IF b.fault THEN b
           ELSE LET r == InsertLine(b.nodes, b.root, ls[k], k, k, b.dup_p, b.dup_q)
                IN  [nodes |-> r.nodes, root |-> r.root, fault |-> r.fault, dup_p |-> r.dup_p, dup_q |-> r.dup_q]

\* the lines of ls in the order given by the permutation f of 1..Len(ls)
Reorder(ls, f) == [i \in 1..Len(ls) |-> ls[f[i]]]

\* C15: for a valid set of segments every insertion order that runs to its
\* end gives the same set of leaf trapezoids (left point, right point, top
\* and bottom compared as coordinates)
C15_OrderIndependent ==
  (pc = "construct" /\ ValidLines(lines) /\ ~fault) =>
    \A f \in Permutations(1..Len(lines)) :
      LET b == BuildLines(Reorder(lines, f), Len(lines))
      IN  ~b.fault => LeafSet(b.nodes, b.root) = LeafSet(nodes, the_tree)

\* the end points of the lines ls
EndPointsOf(ls) == UNION {{ls[i][1], ls[i][2]} : i \in 1..Len(ls)}

\* the x-nodes of the structure under root whose point has the coordinates c
XNodesAt(ns, root, c) ==
  {n \in Reach(ns, root) : IsPoint(ns, n) /\ <<ns[n].x, ns[n].y>> = c}

\* the Segment objects made for the line number k
SegmentsOf(ns, k) ==
  {n \in 1..Len(ns) : IsSegment(ns, n) /\ ns[n].num = k /\ n > bb_bot_s}

\* the node the search for the coordinates c ended at before the step is an
\* x-node; after the step the search ends at the same x-node, it is the only
\* x-node at c, and no point object has been made at c
Reused(c) ==
  /\ IsPoint(nodes, locate_point(nodes, c, the_tree))
  /\ locate_point(nodes', c, the_tree') = locate_point(nodes, c, the_tree)
  /\ XNodesAt(nodes', the_tree', c) = {locate_point(nodes, c, the_tree)}
  /\ \A n \in (Len(nodes) + 1)..Len(nodes') :
       ~(IsPoint(nodes', n) /\ <<nodes'[n].x, nodes'[n].y>> = c)

\* C16: when an end point of the inserted segment is an end point of an
\* earlier segment, no x-node is made for it: the x-node found there is the
\* end point of the new segment's objects, stays the only x-node with these
\* coordinates and is still where the search for them ends
C16_DuplicateEndpointReused ==
  [][(lines' # lines /\ ValidLines(lines') /\ ~fault') =>
       /\ (lines'[Len(lines')][1] \in EndPointsOf(lines)) =>
            /\ Reused(lines'[Len(lines')][1])
            /\ \A sg \in SegmentsOf(nodes', Len(lines')) :
                 nodes'[sg].p = locate_point(nodes, lines'[Len(lines')][1], the_tree)
       /\ (lines'[Len(lines')][2] \in EndPointsOf(lines)) =>
            /\ Reused(lines'[Len(lines')][2])
            /\ \A sg \in SegmentsOf(nodes', Len(lines')) :
                 nodes'[sg].q = locate_point(nodes, lines'[Len(lines')][2], the_tree)]_vars

\* the nodes from the node without a parent down to n along the parent
\* pointers
RECURSIVE ParentChain(_, _)
ParentChain(ns, n) ==
  IF ns[n].parent = None THEN <<n>>
  ELSE Append(ParentChain(ns, ns[n].parent), n)

\* the names of the nodes of the sequence path
NamesOf(path) == [i \in 1..Len(path) |-> NodeName(nodes, name, path[i])]

\* the path printed for the point entered last is the descent of
\* locate_point: the parent pointers from its result up, reversed, are the
\* nodes it visited from the root to its result
PathIsDescent(path) ==
  /\ path # << >>
  /\ path[1] = the_tree
  /\ path[Len(path)] = locate_point(nodes, input_val, the_tree)
  /\ ParentChain(nodes, path[Len(path)]) = path
  /\ result_path = NamesOf(path)

UniqueTrapezoids ==
  {t \in Leaves : \A u \in Leaves : PyEq(nodes, t, u) => t <= u}

\* p + q + n + t: the BeginPoint nodes, the EndPoint nodes, the segments of
\* the input and the unique trapezoids
NodeCount ==
  Cardinality({n \in XNodes : IsBeginPoint(nodes, n)}) + Cardinality({n \in XNodes : IsEndPoint(nodes, n)}) + Len(lines) + Cardinality(UniqueTrapezoids)

\* the node named as n (the objects that carry the name of n) has a child
\* whose row is row
HasChildAt(n, row) ==
  \E n2 \in Reachable :
    /\ NodeName(nodes, name, n2) = NodeName(nodes, name, n)
    /\ \E c \in Children(nodes, n2) \ {None} : IndexOf(c) = row

\* C18: the matrix built after valid insertions is square of dimension
\* p + q + n + t, every node has a column, and the entry (row, col) is 1 when
\* the node of column col has a child of row row and 0 when it has not; the
\* matrix of the empty map is the 1x1 matrix with a single 0
C18_MatrixIsAdjacency ==
  (MatrixBuilt /\ ValidLines(lines)) =>
    /\ Len(matrix) = NodeCount
    /\ \A row \in 1..Len(matrix) : Len(matrix[row]) = Len(matrix)
    /\ \A n \in Reachable :
         /\ IndexOf(n) < Len(matrix)
         /\ \A row \in 1..Len(matrix) :
              (matrix[row][IndexOf(n) + 1] = 1) <=> HasChildAt(n, row - 1)
    /\ \A row \in 1..Len(matrix) : \A col \in 1..Len(matrix) :
         matrix[row][col] \in {0, 1}
    /\ (lines = << >>) => matrix = << <<0>> >>

\* the child edge of a node made before the step leads from old to new: it
\* is unchanged, or it led to a Trapezoid (a leaf replaced in the step) and
\* leads to a node made in the step
EdgeFramed(old, new) ==
  \/ new = old
  \/ IsTrapezoid(nodes, old) /\ new > Len(nodes)

\* C19: an insertion that runs to its end makes new nodes and retargets
\* child edges (and the root) that led to a replaced leaf to a new node; no
\* node made before is taken away or changes its kind, every other child
\* edge of a node made before is unchanged, and no edge is redirected to a
\* node made before
C19_InsertionFrame ==
  [][(lines' # lines /\ ValidLines(lines') /\ ~fault') =>
       /\ Len(nodes') >= Len(nodes)
       /\ EdgeFramed(the_tree, the_tree')
       /\ \A n \in 1..Len(nodes) :
            /\ nodes'[n].kind = nodes[n].kind
            /\ IsPoint(nodes, n) =>
                 /\ EdgeFramed(nodes[n].left, nodes'[n].left)
                 /\ EdgeFramed(nodes[n].right, nodes'[n].right)
            /\ IsSegment(nodes, n) =>
                 /\ EdgeFramed(nodes[n].above, nodes'[n].above)
                 /\ EdgeFramed(nodes[n].below, nodes'[n].below)]_vars

\* the nodes made in the last insertion that hang under a node made before it
RetargetedTo ==
  {c \in Reachable : /\ ~IsTrapezoid(nodes, c)
                     /\ nodes[c].num = Len(lines)
                     /\ nodes[c].parent # None
                     /\ nodes[nodes[c].parent].num < Len(lines)}

\* C19 witness: the third valid insertion went through several trapezoids
\* and at least three child edges of nodes made before it lead to nodes it
\* made
C19_Witness ==
  /\ pc = "construct" /\ ~fault /\ ValidLines(lines) /\ Len(lines) = 3
  /\ LastWasDifferent
  /\ Cardinality(RetargetedTo) >= 3

\* the height of the line l at x as a fraction: LineNum / LineDen, with
\* LineDen > 0
LineDen(l) == l[2][1] - l[1][1]
LineNum(l, x) == l[1][2] * LineDen(l) + (l[2][2] - l[1][2]) * (x - l[1][1])

\* a positive multiple (the same for every x) of the height of hi above lo
\* at x
Gap(lo, hi, x) == LineNum(hi, x) * LineDen(lo) - LineNum(lo, x) * LineDen(hi)

\* where between a and b a linear function with the values da at a and db at
\* b is positive: "all", "none", "left" (from a to its root) or "right"
PositivePart(da, db) ==
  IF da <= 0 /\ db <= 0 THEN "none"
  ELSE IF da >= 0 /\ db >= 0 THEN "all"
  ELSE IF da > 0 THEN "left"
  ELSE "right"

\* the root of the first function (da1 at a, db1 at b) is left of the root
\* of the second (da2, db2), both having one root between a and b
RootBefore(da1, db1, da2, db2) ==
  Abs(da1) * (Abs(da2) + Abs(db2)) < Abs(da2) * (Abs(da1) + Abs(db1))

\* the line l is strictly between bot and top at some x strictly between a
\* and b, where a < b
Between(l, top, bot, a, b) ==
  LET d1a == Gap(bot, l, a)
      d1b == Gap(bot, l, b)
      d2a == Gap(l, top, a)
      d2b == Gap(l, top, b)
      p1 == PositivePart(d1a, d1b)
      p2 == PositivePart(d2a, d2b)
  IN  IF p1 = "none" \/ p2 = "none" THEN FALSE
      ELSE IF p1 = "all" \/ p2 = "all" \/ p1 = p2 THEN TRUE
      ELSE IF p1 = "left" THEN RootBefore(d2a, d2b, d1a, d1b)
      ELSE RootBefore(d1a, d1b, d2a, d2b)

\* the greater and the smaller of two numbers
Max2(a, b) == IF a >= b THEN a ELSE b
Min2(a, b) == IF a <= b THEN a ELSE b

\* the x of the left and of the right wall of the trapezoid object t; a
\* missing point stands for the side of the bounding box
LeftX(ns, t) == IF ns[t].left_point = None THEN bound_box[1][1] ELSE ns[ns[t].left_point].x
RightX(ns, t) == IF ns[t].right_point = None THEN bound_box[2][1] ELSE ns[ns[t].right_point].x

\* the segment l passes through the interior of the trapezoid object t: at
\* some x inside the x-range of both it is strictly between the bottom and
\* the top of t
PassesThrough(ns, l, t) ==
  /\ Max2(LeftX(ns, t), l[1][1]) < Min2(RightX(ns, t), l[2][1])
  /\ Between(l, SegLine(ns, ns[t].above_segment), SegLine(ns, ns[t].below_segment), Max2(LeftX(ns, t), l[1][1]), Min2(RightX(ns, t), l[2][1]))

\* C20: when a valid insertion finds the end points of s in different
\* trapezoids (or at existing points), the leaves it replaces (the leaves
\* before it that are no leaves after it) are exactly the leaves whose
\* interior s passes through
C20_ReplacedAreCrossed ==
  [][(lines' # lines /\ ValidLines(lines') /\ ~fault' /\ ~PyEq(nodes', t_p', t_q')) =>
       \A t \in Leaves :
         (t \notin Reach(nodes', the_tree')) <=> PassesThrough(nodes, lines'[Len(lines')], t)]_vars

\* the index of node n under the counts and names c that
\* name_and_count_traps returns for the structure
IndexUnder(c, n) == NodeIndex(nodes, c.name, n, c.b_count, c.e_count, Len(lines))

\* the indices of the reachable nodes are in the range of a matrix of
\* dimension dim, and nodes with different names have different indices
IndicesInjective(c, dim) ==
  /\ \A n \in Reachable : 0 <= IndexUnder(c, n) /\ IndexUnder(c, n) < dim
  /\ \A n \in Reachable : \A m \in Reachable :
       (NodeName(nodes, c.name, n) # NodeName(nodes, c.name, m)) =>
         IndexUnder(c, n) # IndexUnder(c, m)

\* C23: after valid insertions, when name_and_count_traps gives every
\* trapezoid a name, the index populate_adjacency_matrix computes for each
\* reachable node is within [0, dimension) and two reachable nodes with
\* different names never get the same index
C23_IndicesInjective ==
  (~fault /\ ValidLines(lines)) =>
    LET c == Counts
    IN  ~c.fault => IndicesInjective(c, c.b_count + c.e_count + c.t_count + Len(lines))

\* node n is a y-node of the last inserted segment with two Trapezoid leaves
\* as children
YNodeOfLastWithLeaves(n) ==
  /\ IsSegment(nodes, n)
  /\ nodes[n].num = Len(lines) /\ nodes[n].p = p /\ nodes[n].q = q
  /\ IsTrapezoid(nodes, nodes[n].above)
  /\ IsTrapezoid(nodes, nodes[n].below)

\* node n stands where the Trapezoid object t stood: under the parent of t,
\* which holds t no more
InPlaceOf(n, t) ==
  /\ nodes[t].parent # None
  /\ nodes[n].parent = nodes[t].parent
  /\ n \in Children(nodes, nodes[t].parent)
  /\ t \notin Children(nodes, nodes[t].parent)

\* the leaf of P was replaced by x-node(P): outside-left leaf to the left, a
\* y-node of s with two leaves to the right
WrappedWithP ==
  /\ IsBeginPoint(nodes, p) /\ <<nodes[p].x, nodes[p].y>> = LastLine[1]
  /\ InPlaceOf(p, t_p)
  /\ HasSides(nodes, nodes[p].left, nodes[t_p].left_point, p, nodes[t_p].above_segment, nodes[t_p].below_segment)
  /\ YNodeOfLastWithLeaves(nodes[p].right)

\* the leaf of Q was replaced by x-node(Q): outside-right leaf to the right,
\* a y-node of s with two leaves to the left
WrappedWithQ ==
  /\ IsEndPoint(nodes, q) /\ <<nodes[q].x, nodes[q].y>> = LastLine[2]
  /\ InPlaceOf(q, t_q)
  /\ HasSides(nodes, nodes[q].right, q, nodes[t_q].right_point, nodes[t_q].above_segment, nodes[t_q].below_segment)
  /\ YNodeOfLastWithLeaves(nodes[q].left)

\* C22: after a valid insertion that found P and Q in different trapezoids,
\* a P that is no duplicate stands as an x-node in the place of its leaf with
\* the outside-left leaf and a y-node of s over two leaves as children, and
\* so does a Q that is no duplicate with the outside-right leaf, whatever
\* node the replaced leaf hung under
C22_EndLeavesWrapped ==
  (LastWasDifferent /\ ValidLines(lines) /\ ~fault) =>
    /\ IsTrapezoid(nodes, t_p) => WrappedWithP
    /\ IsTrapezoid(nodes, t_q) => WrappedWithQ

\* the nodes that stand after the step where the Trapezoid object t stood
\* before it: the children of the parent of t in the places that held t
ReplacementsOf(t) ==
  LET pa == nodes[t].parent
  IN  IF pa = None THEN {}
      ELSE IF IsSegment(nodes, pa)
      THEN {c \in {nodes'[pa].above} : nodes[pa].above = t /\ c # t}
           \cup {c \in {nodes'[pa].below} : nodes[pa].below = t /\ c # t}
      ELSE {c \in {nodes'[pa].left} : nodes[pa].left = t /\ c # t}
           \cup {c \in {nodes'[pa].right} : nodes[pa].right = t /\ c # t}

\* after the step node n is a y-node of the line l over an upper piece with
\* the top of t and the bottom l and a lower piece with the top l and the
\* bottom of t (t a Trapezoid object from before the step)
YNodeWithPiecesOf(n, l, t) ==
  /\ IsSegment(nodes', n) /\ SegLine(nodes', n) = l
  /\ IsTrapezoid(nodes', nodes'[n].above)
  /\ SegLine(nodes', nodes'[nodes'[n].above].above_segment) = SegLine(nodes, nodes[t].above_segment)
  /\ SegLine(nodes', nodes'[nodes'[n].above].below_segment) = l
  /\ IsTrapezoid(nodes', nodes'[n].below)
  /\ SegLine(nodes', nodes'[nodes'[n].below].above_segment) = l
  /\ SegLine(nodes', nodes'[nodes'[n].below].below_segment) = SegLine(nodes, nodes[t].below_segment)

\* the leaves interior to the chain of the step: the leaves it replaces, those
\* of P and Q apart (the leaves blockBullets rewrites)
InteriorOfChain ==
  {t \in Leaves : /\ t \notin Reach(nodes', the_tree')
                  /\ ~PyEq(nodes, t, t_p') /\ ~PyEq(nodes, t, t_q')}

InteriorYNodes ==
  {n \in YNodes : /\ nodes[n].num = Len(lines)
                  /\ nodes[n].parent \notin {None, p, q}
                  /\ IsTrapezoid(nodes, nodes[n].above)
                  /\ IsTrapezoid(nodes, nodes[n].below)}

====
